---- MODULE Spec2Model ----
(***************************************************************************)
(* A model of GazelleSort (src/gazellesort.py): the run() pipeline         *)
(*   login -> index -> getSnatched -> prepareDirs -> scanTorrents ->       *)
(*   processFiles -> logout                                                *)
(* together with the functions it is built from (ajaxrequest, renderName,  *)
(* the classification of processFiles, the page count of getSnatched and   *)
(* the effect of `cp -Rl` on the destination tree).                        *)
(*                                                                         *)
(* Text is modelled as a sequence of tokens (strings); an authentication   *)
(* key and an artist name are sequences of single characters, so that the  *)
(* regular expression of ajaxrequest and the ordering used by sorted() act *)
(* on characters as they do in the program.                                *)
(***************************************************************************)
EXTENDS Integers, Sequences, FiniteSets, TLC

VARIABLES
    cfgfile,      \* what config.json holds when GazelleSort is constructed
    config,       \* self.config
    error,        \* self.error
    pc,           \* position of the control flow inside run()
    result,       \* value returned by run(): "none" (not returned), "0" or "1"
    raised,       \* the exception that left run(), [exc |-> "none"] when none did
    log,          \* externally visible operations of this run, in order
    authkey,      \* self.authkey (None until the index call yields it)
    userid,       \* self.userid (0: the attribute was never set)
    seeding,      \* profile["response"]["community"]["seeding"] of the last profile
    pages,        \* local `pages` of getSnatched
    page,         \* loop variable of `for page in range(pages)`
    snatches,     \* self.snatches
    torrentdata,  \* self.torrentdata, as [keys |-> insertion order, val |-> mapping]
    scanpos,      \* number of completed iterations of the loop of scanTorrents
    progress,     \* the progress values handed to printProgressBar, in order
    procpos,      \* number of completed iterations of the loop of processFiles
    decisions,    \* per processed release: the classification and whether placement was attempted
    fs,           \* the destination trees on disk (persist between runs)
    placed,       \* (source, destination) pairs cp has copied at least once
    call,         \* the last ajaxrequest: its inputs and its outcome
    rendered,     \* the last renderName: its inputs and its outcome
    run           \* how many times the program has been started

vars == <<cfgfile, config, error, pc, result, raised, log, authkey, userid, seeding,
          pages, page, snatches, torrentdata, scanpos, progress, procpos, decisions,
          fs, placed, call, rendered, run>>

----------------------------------------------------------------------------
(* Bounds of the model.                                                    *)

\* longest authentication key, in characters
MaxKeyLen == 2
\* largest seeding count a profile reports in the enumeration specification
MaxSeeding == 151
\* most artists credited on a release in the rendering specification
MaxArtists == 3
\* number of runs of the program over the same destination directories
MaxRuns == 2

----------------------------------------------------------------------------
(* Text helpers.                                                           *)

\* self.authkey = None
None == <<"None">>

\* the characters [\da-fA-F] of the regular expression on line 138
HexChars == {"0", "1", "2", "3", "4", "5", "6", "7", "8", "9",
             "a", "b", "c", "d", "e", "f", "A", "B", "C", "D", "E", "F"}

\* characters an authentication key is drawn from: two hexadecimal, one not
KeyChars == {"a", "1", "x"}

RECURSIVE SeqsUpTo(_, _)
SeqsUpTo(S, n) ==
    IF n = 0 THEN {<<>>}
    ELSE LET shorter == SeqsUpTo(S, n - 1)
         IN  shorter \cup {Append(s, c) : s \in {t \in shorter : Len(t) = n - 1}, c \in S}

Keys == SeqsUpTo(KeyChars, MaxKeyLen) \ {<<>>}

\* t occurs in s as a contiguous run of tokens (Python: t in s)
Contains(s, t) ==
    \E i \in 1..(Len(s) - Len(t) + 1) : SubSeq(s, i, i + Len(t) - 1) = t

\* s without its longest prefix of hexadecimal characters
RECURSIVE DropHex(_)
DropHex(s) ==
    IF s # <<>> /\ Head(s) \in HexChars THEN DropHex(Tail(s)) ELSE s

\* re.sub("auth=[\da-fA-F]+", "auth=REDACTED", url): every leftmost, greedy match
\* of "auth=" followed by one or more hexadecimal characters is replaced
RECURSIVE RedactAuth(_)
RedactAuth(url) ==
    IF url = <<>> THEN <<>>
    ELSE IF Head(url) = "auth=" /\ Len(url) >= 2 /\ url[2] \in HexChars
         THEN <<"auth=", "REDACTED">> \o RedactAuth(DropHex(Tail(url)))
         ELSE <<Head(url)>> \o RedactAuth(Tail(url))

----------------------------------------------------------------------------
(* ajaxrequest                                                             *)

\* a dict of the API, as the set of keys present and their values
Has(d, k) == k \in d.fields

\* response.url of session.get(ajax, params=params): action first, then the keyword
\* arguments, then auth when the session holds a key
RequestUrl(url, key, action, params) ==
    <<url, "/ajax.php", "?", "action=", action>> \o params
        \o (IF key # None THEN <<"&", "auth=">> \o key ELSE <<>>)

\* the outcome of a call: it returned `value` (the top level of the decoded body, as
\* its keys and its status) or raised `exc` with the message `msg`
NoValue == [fields |-> {}, status |-> ""]

NoOutcome == [kind |-> "none", exc |-> "none", msg |-> <<>>, value |-> NoValue]

Return(resp) ==
    [kind |-> "return", exc |-> "none", msg |-> <<>>,
     value |-> [fields |-> resp.fields, status |-> resp.status]]

Raise(exc, msg) == [kind |-> "raise", exc |-> exc, msg |-> msg, value |-> NoValue]

\* a plausible slip: the status is not looked at when the API sent no error text
AjaxOutcome_ReturnsWithoutError(url, key, action, params, resp) ==
    IF ~resp.json THEN
        Raise("RequestException",
              <<"Request didn't return any JSON. HTTP status code: ", resp.code>>)
    ELSE IF ~resp.object THEN Raise("TypeError", <<"not subscriptable">>)
    ELSE IF Has(resp, "error") /\ Has(resp, "status") /\ resp.status # "success" THEN
        Raise("RequestException",
              <<"Request '">> \o RedactAuth(RequestUrl(url, key, action, params))
                  \o <<"' failed. Error: ", resp.error>>)
    ELSE Return(resp)

\* lines 131-142: the outcome of ajaxrequest for the response the server sent.
\* A returned call returns the decoded body, resp itself.
AjaxOutcome(url, key, action, params, resp) ==
    IF ~resp.json THEN
        \* response.json() raises json.JSONDecodeError, caught on line 141
        Raise("RequestException",
              <<"Request didn't return any JSON. HTTP status code: ", resp.code>>)
    ELSE IF ~resp.object THEN
        \* decoded["status"] on a JSON list, number, string or null
        Raise("TypeError", <<"not subscriptable">>)
    ELSE IF ~Has(resp, "status") THEN
        \* decoded["status"] on an object without that key
        Raise("KeyError", <<"status">>)
    ELSE IF resp.status = "success" THEN Return(resp)
    ELSE IF Has(resp, "error") THEN
        Raise("RequestException",
              <<"Request '">> \o RedactAuth(RequestUrl(url, key, action, params))
                  \o <<"' failed. Error: ", resp.error>>)
    ELSE
        Raise("RequestException",
              <<"Request '">> \o RequestUrl(url, key, action, params)
                  \o <<"' failed. No Error message was returned by API.">>)

NoCall == [made |-> FALSE, action |-> "", url |-> <<>>, key |-> None,
           json |-> FALSE, object |-> FALSE, fields |-> {}, status |-> "",
           errtext |-> "", code |-> "", out |-> NoOutcome]

\* what the variable `call` records of one ajaxrequest
CallRecord(url, key, action, params, resp) ==
    [made |-> TRUE, action |-> action, url |-> RequestUrl(url, key, action, params),
     key |-> key, json |-> resp.json, object |-> resp.object, fields |-> resp.fields,
     status |-> resp.status, errtext |-> resp.error, code |-> resp.code,
     out |-> AjaxOutcome(url, key, action, params, resp)]

----------------------------------------------------------------------------
(* Configuration: __init__ and checkConfig                                 *)

\* necessaryparams, line 86
Required == {"url", "username", "password", "torrentdir", "destdirs", "pattern"}

\* the "pattern" of the default configuration, lines 64-69; the template string is
\* the sequence of its literal pieces and placeholders
DefaultPattern ==
    [string |-> <<"%(artist)s", " - ", "%(album)s", " (", "%(year)s", ") [", "%(format)s", "]">>,
     variousartists |-> <<"Various Artists">>,
     artistjoiner |-> <<" & ">>,
     listindividualartists |-> 2]

\* the configuration __init__ writes when there is none, lines 52-70. fields are the
\* keys present, badtype the keys whose value has another type than line 86 asks for;
\* destdirs is the dict as a set of (key, value) pairs
DefaultConfig ==
    [fields |-> Required, badtype |-> {}, url |-> "", torrentdir |-> "",
     destdirs |-> {<<"flac24bit", "">>, <<"flac", "">>, <<"320", "">>, <<"v0", "">>, <<"v2", "">>},
     pattern |-> DefaultPattern]

CfgFull ==
    [DefaultConfig EXCEPT !.url = "https://tracker", !.torrentdir = "torrents",
        !.destdirs = {<<"flac24bit", "d24">>, <<"flac", "dflac">>}]

\* a configuration without a destination for 24 bit FLAC
CfgFlacOnly == [CfgFull EXCEPT !.destdirs = {<<"flac", "dflac">>}]

\* a configuration file that lacks "url"
CfgMissing == [CfgFull EXCEPT !.fields = Required \ {"url"}]

\* a configuration file whose "destdirs" is not a dict
CfgWrongType == [CfgFull EXCEPT !.badtype = {"destdirs"}]

\* a configuration whose torrentdir is not a directory
CfgNoTorrentDir == [CfgFull EXCEPT !.torrentdir = "nowhere"]

ConfigFiles == {CfgFull, CfgFlacOnly, CfgMissing, CfgWrongType, CfgNoTorrentDir}

\* lines 83-102: "True", "False", or "TypeError" (line 91 concatenates a str and a
\* tuple as soon as a required key is missing)
CheckConfig(cfg) ==
    IF ~(Required \subseteq cfg.fields) THEN "TypeError"
    ELSE IF cfg.badtype \cap Required # {} THEN "False"
    ELSE "True"

DestKeys(cfg) == {kv[1] : kv \in cfg.destdirs}

\* self.config["destdirs"][key]
DestDir(cfg, key) == (CHOOSE kv \in cfg.destdirs : kv[1] = key)[2]

----------------------------------------------------------------------------
(* getSnatched: the page count                                             *)

\* a plausible slip: integer division
PageCount_Floor(n) == n \div 50

\* line 150: math.ceil(seeding / 50)
PageCount(n) == IF n % 50 = 0 THEN n \div 50 ELSE (n \div 50) + 1

----------------------------------------------------------------------------
(* renderName                                                              *)

\* code points of the characters artist names are drawn from
CharCode == [c \in {"A", "B", "a"} |-> IF c = "A" THEN 65 ELSE IF c = "B" THEN 66 ELSE 97]

\* Python's str <: by code point, a proper prefix first
RECURSIVE StrLess(_, _)
StrLess(a, b) ==
    IF b = <<>> THEN FALSE
    ELSE IF a = <<>> THEN TRUE
    ELSE IF Head(a) = Head(b) THEN StrLess(Tail(a), Tail(b))
    ELSE CharCode[Head(a)] < CharCode[Head(b)]

\* insertion of x into the ascending list s, after the elements equal to it
RECURSIVE Insert(_, _)
Insert(x, s) ==
    IF s = <<>> THEN <<x>>
    ELSE IF StrLess(x, Head(s)) THEN <<x>> \o s
    ELSE <<Head(s)>> \o Insert(x, Tail(s))

\* sorted(names)
RECURSIVE Sorted(_)
Sorted(s) == IF s = <<>> THEN <<>> ELSE Insert(s[Len(s)], Sorted(SubSeq(s, 1, Len(s) - 1)))

\* joiner.join(names): the names, flattened, with the joiner between them
RECURSIVE Join(_, _)
Join(joiner, names) ==
    IF names = <<>> THEN <<>>
    ELSE IF Len(names) = 1 THEN names[1]
    ELSE names[1] \o joiner \o Join(joiner, Tail(names))

\* a plausible slip: the names are joined in the order the API lists them
RenderArtist_Unsorted(artists, pattern) ==
    IF Len(artists) > pattern.listindividualartists
    THEN pattern.variousartists
    ELSE Join(pattern.artistjoiner, artists)

\* lines 209-212: the artist field for the names of
\* torrentdata["group"]["musicInfo"]["artists"]
RenderArtist(artists, pattern) ==
    IF Len(artists) > pattern.listindividualartists
    THEN pattern.variousartists
    ELSE Join(pattern.artistjoiner, Sorted(artists))

\* line 222: template % formatdata
RECURSIVE Format(_, _)
Format(template, data) ==
    IF template = <<>> THEN <<>>
    ELSE (CASE Head(template) = "%(artist)s" -> data.artist
            [] Head(template) = "%(album)s"  -> data.album
            [] Head(template) = "%(year)s"   -> data.year
            [] Head(template) = "%(format)s" -> data.format
            [] OTHER -> <<Head(template)>>)
         \o Format(Tail(template), data)

\* the metadata keys renderName reads, in the order it reads them (lines 209-219)
RenderFields == <<"artists", "format", "name", "year">>

\* the first key of RenderFields the release lacks, "" when it has them all
FirstMissing(td) ==
    IF \A i \in 1..Len(RenderFields) : Has(td, RenderFields[i]) THEN ""
    ELSE RenderFields[CHOOSE i \in 1..Len(RenderFields) :
            /\ ~Has(td, RenderFields[i])
            /\ \A j \in 1..(i - 1) : Has(td, RenderFields[j])]

\* lines 207-224: the rendered name, or the KeyError of the first missing key
RenderName(td, pattern) ==
    IF FirstMissing(td) # ""
    THEN [ok |-> FALSE, missing |-> FirstMissing(td), artist |-> <<>>, name |-> <<>>]
    ELSE [ok |-> TRUE, missing |-> "",
          artist |-> RenderArtist(td.artists, pattern),
          name |-> Format(pattern.string,
                          [artist |-> RenderArtist(td.artists, pattern), album |-> td.name,
                           year |-> <<td.year>>, format |-> <<td.format>>])]

----------------------------------------------------------------------------
(* processFiles: classification and placement                              *)

\* a plausible slip: the TODO of line 241 filled in with a fixed bitrate
Classify_Mp3As320(format, encoding) ==
    IF format = "" THEN "skip"
    ELSE IF format = "FLAC" THEN (IF encoding = "24bit Lossless" THEN "flac24bit" ELSE "flac")
    ELSE IF format = "MP3" THEN "320"
    ELSE "None"

\* lines 231-241: desttype; "skip" stands for the `continue` of line 234 and "None"
\* for the desttype of a release that took no branch
Classify(format, encoding) ==
    IF format = "" THEN "skip"
    ELSE IF format = "FLAC" THEN (IF encoding = "24bit Lossless" THEN "flac24bit" ELSE "flac")
    ELSE IF format = "MP3" THEN "None"
    ELSE "None"

\* str.replace("/", "\\/") of line 246
RECURSIVE EscapeSlashes(_)
EscapeSlashes(p) ==
    IF p = <<>> THEN <<>>
    ELSE (IF Head(p) = "/" THEN <<"\\", "/">> ELSE <<Head(p)>>) \o EscapeSlashes(Tail(p))

\* html.unescape, on the one entity the model's names hold
RECURSIVE HtmlUnescape(_)
HtmlUnescape(p) ==
    IF p = <<>> THEN <<>>
    ELSE (IF Head(p) = "&amp;" THEN <<"&">> ELSE <<Head(p)>>) \o HtmlUnescape(Tail(p))

\* os.path.join(a, b) for a relative b
PathJoin(a, b) == a \o <<"/">> \o b

\* the directories below torrentdir that exist on disk, each holding one file
LocalRoots == {"torrents"}

LocalDirs == {<<"torrents", "/", "relA">>, <<"torrents", "/", "relB">>}

LocalFile == "01.flac"

\* the path without its last component
RECURSIVE Parent(_)
Parent(p) ==
    IF p = <<>> THEN <<>>
    ELSE IF p[Len(p)] = "/" THEN SubSeq(p, 1, Len(p) - 1)
    ELSE Parent(SubSeq(p, 1, Len(p) - 1))

\* the last component of the path
RECURSIVE Basename(_)
Basename(p) ==
    IF p = <<>> \/ p[Len(p)] = "/" THEN <<>>
    ELSE Basename(SubSeq(p, 1, Len(p) - 1)) \o <<p[Len(p)]>>

\* line 250: the destination tree after `cp -Rl src dst`. A missing source or a
\* destination whose parent is missing fails and changes nothing; a destination that
\* does not exist becomes a copy of src; a destination that exists is a directory to
\* copy INTO, so the copy is made at dst/basename(src). Entries that exist are kept.
CopyTree(tree, src, dst) ==
    IF src \notin LocalDirs THEN tree
    ELSE IF dst \notin tree
         THEN (IF Parent(dst) \in tree
               THEN tree \cup {dst, PathJoin(dst, <<LocalFile>>)}
               ELSE tree)
         ELSE tree \cup {PathJoin(dst, Basename(src)),
                         PathJoin(PathJoin(dst, Basename(src)), <<LocalFile>>)}

----------------------------------------------------------------------------
(* The tracker: what the remote side may answer.                           *)

\* a response: its HTTP status code, whether the body is JSON and a JSON object, the
\* top-level keys of the object with the values of "status" and "error", and the
\* value of "response"
Resp(code, json, object, fields, status, errtext, payload) ==
    [code |-> code, json |-> json, object |-> object, fields |-> fields,
     status |-> status, error |-> errtext, response |-> payload]

Success(payload) == Resp("200", TRUE, TRUE, {"status", "response"}, "success", "", payload)

\* the three ways a call fails that lines 136-142 tell apart
Failures(payload) ==
    {Resp("302", FALSE, FALSE, {}, "", "", payload),
     Resp("200", TRUE, TRUE, {"status", "error"}, "failure", "bad auth", payload),
     Resp("200", TRUE, TRUE, {"status"}, "failure", "", payload)}

\* every shape of response, for the specification of ajaxrequest alone
AjaxResponses ==
    {Resp(code, FALSE, FALSE, {}, "", "", "") : code \in {"200", "403"}}
    \cup {Resp(code, TRUE, FALSE, {}, "", "", "") : code \in {"200", "403"}}
    \cup {Resp(code, TRUE, TRUE, f,
               IF "status" \in f THEN st ELSE "",
               IF "error" \in f THEN "bad auth" ELSE "", "") :
            code \in {"200", "403"}, f \in SUBSET {"status", "error", "response"},
            st \in {"success", "failure"}}

\* the key the tracker hands out in the runs of the pipeline
RunKey == <<"a", "1">>

NoIndex == [fields |-> {}, authkey |-> None, id |-> 0]

\* answers to action=index: a failure, the session data, or a body without authkey
IndexResponses ==
    Failures(NoIndex)
    \cup {Success([fields |-> {"authkey", "passkey", "id"}, authkey |-> RunKey, id |-> 7]),
          Success([fields |-> {"passkey", "id"}, authkey |-> None, id |-> 7])}

NoProfile == [fields |-> {}, seeding |-> 0]

\* answers to action=user: a failure, or a profile with a seeding count of S
UserResponses(S) ==
    Failures(NoProfile) \cup {Success([fields |-> {"seeding"}, seeding |-> n]) : n \in S}

\* seeding counts of the runs of the pipeline: no page, one page, two pages
RunSeedings == {0, 50, 51}

\* the snatch records (releaseGroupId, torrentId) the seeding pages list
R1 == <<10, 1>>

R2 == <<20, 2>>

\* what re.findall finds on one page, in page order
PageBodies == {<<>>, <<R1>>, <<R2, R1>>}

\* metadata of a release, flattened: format, encoding and filePath are the keys of
\* response["torrent"], name and year those of response["group"], artists the names of
\* response["group"]["musicInfo"]["artists"]; fields are the keys present
MetaFields == {"format", "encoding", "filePath", "name", "year", "artists"}

Meta(fields, format, encoding, filePath, name, year, artists) ==
    [fields |-> fields, format |-> format, encoding |-> encoding, filePath |-> filePath,
     name |-> name, year |-> year, artists |-> artists]

NoMeta == Meta({}, "", "", <<>>, <<>>, "", <<>>)

\* what the tracker may hold for torrent 1 and for torrent 2
Metadata(tid) ==
    IF tid = 1
    THEN {Meta(MetaFields, "FLAC", "Lossless", <<"relA">>, <<"Album X">>, "2020",
               <<<<"A">>>>),
          Meta(MetaFields \ {"year"}, "FLAC", "Lossless", <<"relA">>, <<"Album X">>, "",
               <<<<"A">>>>),
          Meta(MetaFields, "", "", <<"relA">>, <<"Album X">>, "2020", <<<<"A">>>>)}
    ELSE {Meta(MetaFields, "FLAC", "24bit Lossless", <<"relB">>,
               <<"Rock ", "&amp;", " Roll">>, "1999", <<<<"B">>, <<"A">>>>),
          Meta(MetaFields, "MP3", "320", <<"relB">>, <<"Rock ", "&amp;", " Roll">>, "1999",
               <<<<"B">>, <<"A">>>>),
          Meta(MetaFields, "AAC", "256", <<"relB">>, <<"Rock ", "&amp;", " Roll">>, "1999",
               <<<<"B">>, <<"A">>>>),
          Meta(MetaFields, "FLAC", "Lossless", <<"relB", "/", "cd1">>,
               <<"Rock ", "&amp;", " Roll">>, "1999", <<<<"B">>, <<"A">>>>)}

\* answers to action=torrent&id=tid
TorrentResponses(tid) == Failures(NoMeta) \cup {Success(m) : m \in Metadata(tid)}

----------------------------------------------------------------------------
(* The state of one run.                                                   *)

NoRaise == [exc |-> "none", at |-> "", arg |-> ""]

\* an exception that leaves run(): its class, the stage it was raised in, its argument
Exc(exc, at, arg) == [exc |-> exc, at |-> at, arg |-> arg]

\* an externally visible operation
Ev(op, arg, src, dst) == [op |-> op, arg |-> arg, src |-> src, dst |-> dst]

NoRender == [done |-> FALSE, artists |-> <<>>, out |-> RenderName(NoMeta, DefaultPattern)]

\* a plausible slip: logout is called before processFiles
StageAfter_LogoutFirst(stage) ==
    CASE stage = "login" -> "index"
      [] stage = "index" -> "getSnatched"
      [] stage = "getSnatched" -> "prepareDirs"
      [] stage = "prepareDirs" -> "scanTorrents"
      [] stage = "scanTorrents" -> "logout"
      [] stage = "logout" -> "processFiles"
      [] stage = "processFiles" -> "returned"

\* the order of the calls of run(), lines 263-291
StageAfter(stage) ==
    CASE stage = "login" -> "index"
      [] stage = "index" -> "getSnatched"
      [] stage = "getSnatched" -> "prepareDirs"
      [] stage = "prepareDirs" -> "scanTorrents"
      [] stage = "scanTorrents" -> "processFiles"
      [] stage = "processFiles" -> "logout"
      [] stage = "logout" -> "returned"

\* the stage control reaches next: the loops of scanTorrents (line 201) and of
\* processFiles (line 227) have no iteration when nothing was snatched
RECURSIVE Enter(_, _)
Enter(stage, n) ==
    IF stage \in {"scanTorrents", "processFiles"} /\ n = 0
    THEN Enter(StageAfter(stage), n)
    ELSE stage

\* line 291
ResultAt(stage) == IF stage = "returned" THEN "0" ELSE "none"

\* self.snatches.index(id): the first position of id, from 0
IndexOf(s, x) == (CHOOSE i \in 1..Len(s) : s[i] = x /\ \A j \in 1..(i - 1) : s[j] # x) - 1

NoTorrentdata == [keys |-> <<>>, val |-> <<>>]

\* self.torrentdata[tid] = m: a new key goes last, a known key keeps its place
Put(td, tid, m) ==
    IF \E i \in 1..Len(td.keys) : td.keys[i] = tid
    THEN [td EXCEPT !.val = [i \in 1..Len(td.keys) |-> IF td.keys[i] = tid THEN m ELSE td.val[i]]]
    ELSE [keys |-> Append(td.keys, tid), val |-> Append(td.val, m)]

\* the state of a freshly constructed GazelleSort, lines 34-78, for the configuration
\* file `file` ("absent", "present" or "template") holding `cfg`
Constructed(file, cfg) ==
    /\ cfgfile = file
    /\ config = (IF file = "present" THEN cfg ELSE DefaultConfig)
    /\ error = (file = "absent")
    /\ pc = "start"
    /\ result = "none"
    /\ raised = NoRaise
    /\ log = <<>>
    /\ authkey = None
    /\ userid = 0
    /\ seeding = 0
    /\ pages = 0
    /\ page = 0
    /\ snatches = <<>>
    /\ torrentdata = NoTorrentdata
    /\ scanpos = 0
    /\ progress = <<>>
    /\ procpos = 0
    /\ decisions = <<>>
    /\ call = NoCall
    /\ rendered = NoRender

Init ==
    /\ \E file \in {"absent", "present"} :
         \E cfg \in (IF file = "present" THEN ConfigFiles ELSE {DefaultConfig}) :
            Constructed(file, cfg)
    /\ fs = {}
    /\ placed = {}
    /\ run = 1

----------------------------------------------------------------------------
(* run(), step by step.                                                    *)

\* lines 254-260: the checks before anything is sent
Start ==
    /\ pc = "start"
    /\ IF error
       THEN pc' = "returned" /\ result' = "1" /\ raised' = raised
       ELSE IF CheckConfig(config) = "TypeError"
       THEN pc' = "raised" /\ result' = result /\ raised' = Exc("TypeError", "checkConfig", "")
       ELSE IF CheckConfig(config) = "False"
       THEN pc' = "returned" /\ result' = "1" /\ raised' = raised
       ELSE pc' = "login" /\ result' = result /\ raised' = raised
    /\ UNCHANGED <<cfgfile, config, error, log, authkey, userid, seeding, pages, page,
                   snatches, torrentdata, scanpos, progress, procpos, decisions, fs,
                   placed, call, rendered, run>>

\* lines 263-266 and 105-114: the login request; a status other than 200 is reported
\* and the run goes on. Without a scheme in the URL requests raises MissingSchema.
Login ==
    /\ pc = "login"
    /\ IF config.url = ""
       THEN /\ pc' = "raised"
            /\ raised' = Exc("MissingSchema", "login", "")
            /\ log' = log
       ELSE \E code \in {"200", "403"} :
            /\ pc' = StageAfter("login")
            /\ raised' = raised
            /\ log' = Append(log, Ev("login", code, <<>>, <<>>))
    /\ UNCHANGED <<cfgfile, config, error, result, authkey, userid, seeding, pages, page,
                   snatches, torrentdata, scanpos, progress, procpos, decisions, fs,
                   placed, call, rendered, run>>

\* lines 269-273: the index call; the session data is kept when all three keys came
Index ==
    /\ pc = "index"
    /\ \E resp \in IndexResponses :
        LET c == CallRecord(config.url, authkey, "index", <<>>, resp)
        IN  /\ call' = c
            /\ log' = Append(log, Ev("api", "index", <<>>, <<>>))
            /\ IF c.out.kind = "raise"
               THEN /\ pc' = "raised"
                    /\ raised' = Exc(c.out.exc, "index", "")
                    /\ UNCHANGED <<authkey, userid>>
               ELSE /\ pc' = StageAfter("index")
                    /\ raised' = raised
                    /\ IF {"authkey", "passkey", "id"} \subseteq resp.response.fields
                       THEN authkey' = resp.response.authkey /\ userid' = resp.response.id
                       ELSE UNCHANGED <<authkey, userid>>
    /\ UNCHANGED <<cfgfile, config, error, result, seeding, pages, page, snatches,
                   torrentdata, scanpos, progress, procpos, decisions, fs, placed,
                   rendered, run>>

\* lines 145-151: the profile call of getSnatched and the page count. self.userid is
\* read first: an AttributeError when the index call did not set it.
GetProfile(S) ==
    /\ pc = "getSnatched"
    /\ IF userid = 0
       THEN /\ pc' = "raised"
            /\ raised' = Exc("AttributeError", "getSnatched", "userid")
            /\ UNCHANGED <<log, call, seeding, pages>>
       ELSE \E resp \in UserResponses(S) :
            LET c == CallRecord(config.url, authkey, "user",
                                <<"&", "id=", ToString(userid)>>, resp)
            IN  /\ call' = c
                /\ log' = Append(log, Ev("api", "user", <<>>, <<>>))
                /\ IF c.out.kind = "raise"
                   THEN /\ pc' = "raised"
                        /\ raised' = Exc(c.out.exc, "getSnatched", "")
                        /\ UNCHANGED <<seeding, pages>>
                   ELSE /\ seeding' = resp.response.seeding
                        /\ pages' = PageCount(resp.response.seeding)
                        /\ pc' = (IF PageCount(resp.response.seeding) = 0
                                  THEN StageAfter("getSnatched") ELSE "readPage")
                        /\ raised' = raised
    /\ page' = 0
    /\ UNCHANGED <<cfgfile, config, error, result, authkey, userid, snatches, torrentdata,
                   scanpos, progress, procpos, decisions, fs, placed, rendered, run>>

\* lines 153-160: one iteration of `for page in range(pages)`
ReadPage ==
    /\ pc = "readPage"
    /\ page < pages
    /\ \E body \in PageBodies :
        /\ log' = Append(log, Ev("page", ToString(page + 1), <<>>, <<>>))
        /\ snatches' = snatches \o body
    /\ page' = page + 1
    /\ pc' = (IF page + 1 = pages THEN StageAfter("getSnatched") ELSE "readPage")
    /\ UNCHANGED <<cfgfile, config, error, result, raised, authkey, userid, seeding, pages,
                   torrentdata, scanpos, progress, procpos, decisions, fs, placed, call,
                   rendered, run>>

\* lines 162-170: the destination directories are created, torrentdir must exist
PrepareDirs ==
    /\ pc = "prepareDirs"
    /\ fs' = fs \cup {<<kv[2]>> : kv \in config.destdirs}
    /\ IF config.torrentdir \notin LocalRoots
       THEN /\ pc' = "raised"
            /\ raised' = Exc("Exception", "prepareDirs", "torrentdir")
            /\ result' = result
       ELSE /\ pc' = Enter(StageAfter("prepareDirs"), Len(snatches))
            /\ raised' = raised
            /\ result' = ResultAt(Enter(StageAfter("prepareDirs"), Len(snatches)))
    /\ UNCHANGED <<cfgfile, config, error, log, authkey, userid, seeding, pages, page,
                   snatches, torrentdata, scanpos, progress, procpos, decisions, placed,
                   call, rendered, run>>

\* lines 201-203: one iteration of the loop of scanTorrents
ScanStep ==
    /\ pc = "scanTorrents"
    /\ scanpos < Len(snatches)
    /\ LET id == snatches[scanpos + 1]
       IN  /\ progress' = Append(progress, <<IndexOf(snatches, id), Len(snatches)>>)
           /\ \E resp \in TorrentResponses(id[2]) :
               LET c == CallRecord(config.url, authkey, "torrent",
                                   <<"&", "id=", ToString(id[2])>>, resp)
               IN  /\ call' = c
                   /\ log' = Append(log, Ev("api", "torrent", <<>>, <<>>))
                   /\ IF c.out.kind = "raise"
                      THEN /\ pc' = "raised"
                           /\ raised' = Exc(c.out.exc, "scanTorrents", "")
                           /\ UNCHANGED <<torrentdata, scanpos, result>>
                      ELSE /\ torrentdata' = Put(torrentdata, id[2], resp.response)
                           /\ scanpos' = scanpos + 1
                           /\ raised' = raised
                           /\ IF scanpos + 1 = Len(snatches)
                              THEN /\ pc' = Enter(StageAfter("scanTorrents"), Len(snatches))
                                   /\ result' = ResultAt(Enter(StageAfter("scanTorrents"),
                                                               Len(snatches)))
                              ELSE pc' = pc /\ result' = result
    /\ UNCHANGED <<cfgfile, config, error, authkey, userid, seeding, pages, page, snatches,
                   procpos, decisions, fs, placed, rendered, run>>

\* lines 228-250 for one release td: the KeyError that ends it (exc, missing), the
\* classification (classified, format, encoding, desttype), whether line 243 let it
\* through (attempted, destroot), the rendering (render) and the copy (cp, src, dst)
ProcessOne(td, cfg) ==
    LET blank == [exc |-> "none", missing |-> "", classified |-> FALSE, format |-> "",
                  encoding |-> "", desttype |-> "None", attempted |-> FALSE,
                  destroot |-> "", render |-> NoRender.out, cp |-> FALSE,
                  src |-> <<>>, dst |-> <<>>]
    IN
    IF ~Has(td, "format") THEN [blank EXCEPT !.exc = "KeyError", !.missing = "format"]
    ELSE IF td.format = "FLAC" /\ ~Has(td, "encoding")
    THEN [blank EXCEPT !.exc = "KeyError", !.missing = "encoding"]
    ELSE
    LET desttype == Classify(td.format, td.encoding)
        decided == [blank EXCEPT !.classified = TRUE, !.format = td.format,
                                 !.encoding = td.encoding, !.desttype = desttype]
    IN
    IF desttype = "skip" \/ desttype \notin DestKeys(cfg) THEN decided
    ELSE
    LET destroot == DestDir(cfg, desttype)
        tried == [decided EXCEPT !.attempted = TRUE, !.destroot = destroot]
    IN
    IF ~Has(td, "filePath") THEN [tried EXCEPT !.exc = "KeyError", !.missing = "filePath"]
    ELSE
    LET r == RenderName(td, cfg.pattern)
    IN
    IF ~r.ok THEN [tried EXCEPT !.exc = "KeyError", !.missing = r.missing, !.render = r]
    ELSE [tried EXCEPT !.render = r, !.cp = TRUE,
             !.src = HtmlUnescape(PathJoin(<<cfg.torrentdir>>, EscapeSlashes(td.filePath))),
             !.dst = HtmlUnescape(PathJoin(<<destroot>>, r.name))]

\* lines 227-250: one iteration of the loop of processFiles
ProcessStep ==
    /\ pc = "processFiles"
    /\ procpos < Len(torrentdata.keys)
    /\ LET tid == torrentdata.keys[procpos + 1]
           td == torrentdata.val[procpos + 1]
           p == ProcessOne(td, config)
       IN  /\ decisions' = (IF p.classified
                            THEN Append(decisions,
                                        [tid |-> tid, format |-> p.format,
                                         encoding |-> p.encoding, desttype |-> p.desttype,
                                         attempted |-> p.attempted, destroot |-> p.destroot,
                                         cp |-> p.cp])
                            ELSE decisions)
           /\ rendered' = (IF p.render.ok \/ p.render.missing # ""
                           THEN [done |-> TRUE, artists |-> td.artists, out |-> p.render]
                           ELSE rendered)
           /\ IF p.cp
              THEN /\ log' = Append(log, Ev("cp", ToString(tid), p.src, p.dst))
                   /\ fs' = CopyTree(fs, p.src, p.dst)
                   /\ placed' = (IF p.src \in LocalDirs /\ p.dst \in CopyTree(fs, p.src, p.dst)
                                 THEN placed \cup {<<p.src, p.dst>>} ELSE placed)
              ELSE UNCHANGED <<log, fs, placed>>
           /\ IF p.exc # "none"
              THEN /\ pc' = "raised"
                   /\ raised' = Exc(p.exc, "processFiles", p.missing)
                   /\ UNCHANGED <<procpos, result>>
              ELSE /\ procpos' = procpos + 1
                   /\ raised' = raised
                   /\ IF procpos + 1 = Len(torrentdata.keys)
                      THEN /\ pc' = StageAfter("processFiles")
                           /\ result' = ResultAt(StageAfter("processFiles"))
                      ELSE pc' = pc /\ result' = result
    /\ UNCHANGED <<cfgfile, config, error, authkey, userid, seeding, pages, page, snatches,
                   torrentdata, scanpos, progress, call, run>>

\* lines 289-291 and 117-119: the logout request, then run() returns 0
Logout ==
    /\ pc = "logout"
    /\ log' = Append(log, Ev("logout", "", <<>>, <<>>))
    /\ pc' = Enter(StageAfter("logout"), Len(torrentdata.keys))
    /\ result' = ResultAt(Enter(StageAfter("logout"), Len(torrentdata.keys)))
    /\ UNCHANGED <<cfgfile, config, error, raised, authkey, userid, seeding, pages, page,
                   snatches, torrentdata, scanpos, progress, procpos, decisions, fs,
                   placed, call, rendered, run>>

\* lines 315-317 and 34-78: the program is started again over the same directories; a
\* configuration file that was absent now holds the template __init__ wrote
Rerun ==
    /\ pc \in {"returned", "raised"}
    /\ run < MaxRuns
    /\ run' = run + 1
    /\ LET file == IF cfgfile = "absent" THEN "template" ELSE cfgfile
       IN  /\ cfgfile' = file
           /\ config' = (IF file = "present" THEN config ELSE DefaultConfig)
           /\ error' = FALSE
    /\ pc' = "start"
    /\ result' = "none"
    /\ raised' = NoRaise
    /\ log' = <<>>
    /\ authkey' = None
    /\ userid' = 0
    /\ seeding' = 0
    /\ pages' = 0
    /\ page' = 0
    /\ snatches' = <<>>
    /\ torrentdata' = NoTorrentdata
    /\ scanpos' = 0
    /\ progress' = <<>>
    /\ procpos' = 0
    /\ decisions' = <<>>
    /\ call' = NoCall
    /\ rendered' = NoRender
    /\ UNCHANGED <<fs, placed>>

GetSnatched == GetProfile(RunSeedings)

Next ==
    \/ Start
    \/ Login
    \/ Index
    \/ GetSnatched
    \/ ReadPage
    \/ PrepareDirs
    \/ ScanStep
    \/ ProcessStep
    \/ Logout
    \/ Rerun

Spec == Init /\ [][Next]_vars

----------------------------------------------------------------------------
(* ajaxrequest alone: a session that may hold any key, any response.       *)

\* the variables a specification of one function leaves at their initial values
Idle ==
    /\ cfgfile = "present"
    /\ error = FALSE
    /\ result = "none"
    /\ raised = NoRaise
    /\ seeding = 0
    /\ pages = 0
    /\ page = 0
    /\ snatches = <<>>
    /\ scanpos = 0
    /\ progress = <<>>
    /\ procpos = 0
    /\ decisions = <<>>
    /\ call = NoCall
    /\ rendered = NoRender
    /\ fs = {}
    /\ placed = {}
    /\ run = 1

InitAjax ==
    /\ Idle
    /\ config = CfgFull
    /\ pc = "ajax"
    /\ log = <<>>
    /\ authkey \in Keys \cup {None}
    /\ userid = 0
    /\ torrentdata = NoTorrentdata

\* lines 121-142: one call of ajaxrequest with the session's key
AjaxCall ==
    /\ pc = "ajax"
    /\ \E action \in {"index", "user", "torrent"}, resp \in AjaxResponses :
        call' = CallRecord(config.url, authkey, action,
                           IF action = "index" THEN <<>> ELSE <<"&", "id=", "7">>, resp)
    /\ UNCHANGED <<cfgfile, config, error, pc, result, raised, log, authkey, userid,
                   seeding, pages, page, snatches, torrentdata, scanpos, progress,
                   procpos, decisions, fs, placed, rendered, run>>

SpecAjax == InitAjax /\ [][AjaxCall]_vars

----------------------------------------------------------------------------
(* getSnatched alone: a logged-in session, any seeding count up to MaxSeeding. *)

InitEnum ==
    /\ Idle
    /\ config = CfgFull
    /\ pc = "getSnatched"
    /\ log = <<Ev("login", "200", <<>>, <<>>), Ev("api", "index", <<>>, <<>>)>>
    /\ authkey = RunKey
    /\ userid = 7
    /\ torrentdata = NoTorrentdata

Enumerate == GetProfile(0..MaxSeeding)

SpecEnum == InitEnum /\ [][Enumerate \/ ReadPage]_vars

----------------------------------------------------------------------------
(* renderName alone: any list of artists, any threshold.                   *)

\* the names artists are drawn from: an upper case name sorts before a lower case
\* one, a name before the names it is a proper prefix of
ArtistNames == {<<"A">>, <<"A", "a">>, <<"B">>, <<"a">>}

InitRender ==
    /\ Idle
    /\ \E n \in 0..MaxArtists :
         config = [CfgFull EXCEPT !.pattern.listindividualartists = n]
    /\ pc = "render"
    /\ log = <<>>
    /\ authkey = RunKey
    /\ userid = 7
    /\ \E artists \in SeqsUpTo(ArtistNames, MaxArtists) :
         \E fields \in {MetaFields, MetaFields \ {"year"}} :
            torrentdata = [keys |-> <<1>>,
                           val |-> <<Meta(fields, "FLAC", "Lossless", <<"relA">>,
                                          <<"Album X">>,
                                          IF "year" \in fields THEN "2020" ELSE "",
                                          artists)>>]

\* lines 207-224: renderName for the release held in torrentdata
Render ==
    /\ pc = "render"
    /\ rendered' = [done |-> TRUE, artists |-> torrentdata.val[1].artists,
                    out |-> RenderName(torrentdata.val[1], config.pattern)]
    /\ pc' = "rendered"
    /\ UNCHANGED <<cfgfile, config, error, result, raised, log, authkey, userid, seeding,
                   pages, page, snatches, torrentdata, scanpos, progress, procpos,
                   decisions, fs, placed, call, run>>

SpecRender == InitRender /\ [][Render]_vars

----------------------------------------------------------------------------
(* Properties.                                                             *)

Ended == pc \in {"returned", "raised"}

\* the events of the log with the given operation, in order
OfOp(op) == SelectSeq(log, LAMBDA e : e.op = op)

\* the stage of run() an externally visible operation belongs to
Rank(e) ==
    CASE e.op = "login" -> 1
      [] e.op = "api" /\ e.arg = "index" -> 2
      [] e.op = "api" /\ e.arg = "user" -> 3
      [] e.op = "page" -> 4
      [] e.op = "api" /\ e.arg = "torrent" -> 5
      [] e.op = "cp" -> 6
      [] e.op = "logout" -> 7

\* C1: in every run the externally visible operations occur in stage order: the
\* login first and once, then the index call, the profile call, the page fetches,
\* the metadata calls, the placements, and the logout last and once; a run that
\* returned 0 ended with the logout.
C1_StageOrder ==
    /\ \A i, j \in 1..Len(log) : i < j => Rank(log[i]) <= Rank(log[j])
    /\ log # <<>> => log[1].op = "login"
    /\ Len(OfOp("login")) <= 1
    /\ \A i \in 1..Len(log) : log[i].op = "logout" => i = Len(log)
    /\ result = "0" => log # <<>> /\ log[Len(log)].op = "logout"

\* a run that went through every stage: two page fetches, metadata calls, a
\* placement, the logout
C1_Witness ==
    /\ result = "0"
    /\ Len(OfOp("page")) = 2
    /\ Len(SelectSeq(log, LAMBDA e : e.op = "api" /\ e.arg = "torrent")) >= 2
    /\ Len(OfOp("cp")) >= 1

\* what the call's response was
CallJsonObject == call.json /\ call.object

CallSucceeded == CallJsonObject /\ "status" \in call.fields /\ call.status = "success"

CallFailedStatus == CallJsonObject /\ "status" \in call.fields /\ call.status # "success"

\* the message of a failure with or without an error text
CallFailureMessageOk ==
    IF "error" \in call.fields
    THEN Contains(call.out.msg, <<"' failed. Error: ", call.errtext>>)
    ELSE Contains(call.out.msg, <<"' failed. No Error message was returned by API.">>)

C3_KeyNeverEchoed ==
    call.made /\ call.key # None /\ call.out.kind = "raise" =>
        ~Contains(call.out.msg, call.key)

\* release i of torrentdata passes line 243 and then lacks a key renderName reads
Lacking(i) ==
    LET p == ProcessOne(torrentdata.val[i], config)
    IN  p.attempted /\ p.exc = "KeyError" /\ p.missing \in {"artists", "format", "name", "year"}

\* a placement was made for torrent tid
PlacedFor(tid) == \E k \in 1..Len(log) : log[k].op = "cp" /\ log[k].arg = ToString(tid)

\* C4: when a release of the collection lacks a field rendering needs, the run still
\* ends by returning 0 after the logout, nothing was placed for that release, and every
\* other release that classification lets through was placed.
C4_MissingFieldSkipsOneRelease ==
    Ended /\ snatches # <<>> /\ scanpos = Len(snatches)
          /\ (\E i \in 1..Len(torrentdata.keys) : Lacking(i)) =>
        /\ result = "0"
        /\ log[Len(log)].op = "logout"
        /\ \A i \in 1..Len(torrentdata.keys) :
              IF Lacking(i) THEN ~PlacedFor(torrentdata.keys[i])
              ELSE ProcessOne(torrentdata.val[i], config).cp => PlacedFor(torrentdata.keys[i])

\* C5: a placement with a source and a destination that were placed before leaves the
\* destination tree as it was.
C5_Idempotent ==
    [][(/\ Len(log') = Len(log) + 1
        /\ log'[Len(log')].op = "cp"
        /\ <<log'[Len(log')].src, log'[Len(log')].dst>> \in placed) => fs' = fs]_vars

\* the decision table of the classification
Table(format, encoding) ==
    CASE format = "" -> "skip"
      [] format = "FLAC" /\ encoding = "24bit Lossless" -> "flac24bit"
      [] format = "FLAC" /\ encoding # "24bit Lossless" -> "flac"
      [] format = "MP3" -> "skip"
      [] OTHER -> "skip"

\* the category of a decision: no desttype is a skip
Category(d) == IF d.desttype \in {"skip", "None"} THEN "skip" ELSE d.desttype

\* C6: every release processFiles has classified got the category of the decision
\* table; it went on to placement exactly when that category is a key of destdirs,
\* with destdirs[category] as its destination root; a placement in the log is under
\* that root, and a release that did not go on has no placement.
C6_Classification ==
    /\ \A i \in 1..Len(decisions) :
        LET d == decisions[i]
        IN  /\ Category(d) = Table(d.format, d.encoding)
            /\ d.attempted <=> Category(d) \in DestKeys(config)
            /\ d.attempted => d.destroot = DestDir(config, Category(d))
            /\ d.cp => d.attempted
            /\ d.cp <=> PlacedFor(d.tid)
    /\ \A k \in 1..Len(log) :
        log[k].op = "cp" =>
            \E i \in 1..Len(decisions) :
                /\ ToString(decisions[i].tid) = log[k].arg
                /\ decisions[i].attempted
                /\ log[k].dst[1] = decisions[i].destroot

\* one run placed a FLAC release and skipped a 24 bit release that has no destination
C6_Witness ==
    /\ result = "0"
    /\ \E i, j \in 1..Len(decisions) :
        /\ decisions[i].cp /\ decisions[i].desttype = "flac"
        /\ decisions[j].desttype = "flac24bit" /\ ~decisions[j].attempted

\* the artists of the rendered release in the order p puts them
Reordered(a, p) == [i \in 1..Len(a) |-> a[p[i]]]

Ascending(s) == \A i, j \in 1..Len(s) : i < j => ~StrLess(s[j], s[i])

\* C7: the artist field is the various-artists label when more artists are credited
\* than listindividualartists, and otherwise the names in ascending order joined by
\* artistjoiner; every order of the same artists renders to the same field.
C7_ArtistField ==
    rendered.done /\ rendered.out.ok =>
        LET a == rendered.artists
            pattern == config.pattern
            orders == Permutations(1..Len(a))
        IN  /\ IF Len(a) > pattern.listindividualartists
               THEN rendered.out.artist = pattern.variousartists
               ELSE \E p \in orders :
                      /\ Ascending(Reordered(a, p))
                      /\ rendered.out.artist = Join(pattern.artistjoiner, Reordered(a, p))
            /\ \A p \in orders :
                  RenderArtist(Reordered(a, p), pattern) = rendered.out.artist

\* as many artists as the threshold, listed in descending order, were joined
C7_Witness ==
    /\ rendered.done /\ rendered.out.ok
    /\ Len(rendered.artists) = config.pattern.listindividualartists
    /\ Len(rendered.artists) >= 2
    /\ StrLess(rendered.artists[2], rendered.artists[1])
    /\ rendered.out.artist # config.pattern.variousartists

\* C8: the page fetches are pages 1, 2, ... in this order, each once; while pages are
\* being read fewer than ceil(N/50) were fetched, and once enumeration is over exactly
\* ceil(N/50) were, for the seeding count N of the profile: none for N = 0.
C8_PageFetches ==
    LET fetched == OfOp("page")
        n == Len(fetched)
    IN  /\ \A i \in 1..n : fetched[i].arg = ToString(i)
        /\ pc = "getSnatched" => n = 0
        /\ pc = "readPage" => n * 50 < seeding
        /\ pc = "prepareDirs" =>
              /\ n * 50 >= seeding
              /\ n = 0 \/ (n - 1) * 50 < seeding
              /\ seeding = 0 => n = 0

\* a count just above a page boundary took one page more
C8_Witness ==
    /\ pc = "prepareDirs"
    /\ seeding = 51
    /\ Len(OfOp("page")) = 2

\* the index call was made and left the session without user id
LoginStalled == (\E k \in 1..Len(log) : log[k].op = "api" /\ log[k].arg = "index") /\ userid = 0

\* C9: run() returns 0 exactly when the pipeline completed; a run whose configuration
\* file is absent or fails checkConfig ends with result 1 and without any request; a
\* run whose index call did not yield the session data ends with result 1.
C9_ExitCodes ==
    /\ result = "0" <=> (Ended /\ log # <<>> /\ log[Len(log)].op = "logout")
    /\ Ended /\ (error \/ CheckConfig(config) # "True") => result = "1" /\ log = <<>>
    /\ Ended /\ LoginStalled => result = "1"

\* C10: the progress values handed to the progress indicator during scanTorrents
\* never decrease.
C10_ProgressMonotone ==
    \A i, j \in 1..Len(progress) :
        i < j => progress[i][1] * progress[j][2] <= progress[j][1] * progress[i][2]

====
